---- MODULE Spec2Model ----
(***************************************************************************)
(* Inventory service (src/index.js).  The file holds two deployments of    *)
(* the same HTTP surface:                                                  *)
(*   - the file-backed server (lines 1-411): the collection is a JSON      *)
(*     array in DB_FILE, read by loadDB and rewritten by saveDB;           *)
(*   - the row-backed server (lines 412-624): the collection is the MySQL  *)
(*     table `inventory`, accessed with db.query.                          *)
(* A behaviour of Spec is one deployment (chosen in Init) serving a        *)
(* sequence of requests: a handler step takes a request and produces the   *)
(* response, a Receive step delivers the response to the client, and the   *)
(* next request is taken after that.  PhotoSpec runs the photo routes on a  *)
(* store left by an earlier run, and Serve runs several requests at the     *)
(* same time, one event-loop turn per step, with storage operations that    *)
(* can fail.                                                               *)
(*                                                                         *)
(* JavaScript values are records [t, v]: t is the type tag, v the          *)
(* characters of a string (<<>> for undefined and null).  A key that is    *)
(* absent from a body or from a JSON document reads as undefined, so an    *)
(* absent key and an undefined value are the same model value.             *)
(***************************************************************************)
EXTENDS Integers, Sequences, FiniteSets

VARIABLES variant, dbFile, inventory, clock, autoIncrement, photos,
          nextFilename, last, issued, calls

vars == <<variant, dbFile, inventory, clock, autoIncrement, photos,
          nextFilename, last, issued, calls>>

(***************************************************************************)
(* Bounds of the model.                                                    *)
(***************************************************************************)
MaxItems == 2
MaxTicks == 1
MaxUploads == 1
MaxInserts == 2
ClockStart == 9

MaxCalls == 2

MaxClock == ClockStart + MaxTicks

(***************************************************************************)
(* JavaScript values.                                                      *)
(***************************************************************************)
Undefined == [t |-> "undefined", v |-> <<>>]
Null == [t |-> "null", v |-> <<>>]
Str(s) == [t |-> "str", v |-> s]

\* ToBoolean, on undefined, null and strings: only a non-empty string is truthy.
Truthy(x) == x.t = "str" /\ x.v # <<>>

\* a || b
Or(a, b) == IF Truthy(a) THEN a ELSE b

Whitespace == {" "}

RECURSIVE TrimStart(_)
TrimStart(s) ==
  IF s # <<>> /\ Head(s) \in Whitespace THEN TrimStart(Tail(s)) ELSE s

RECURSIVE TrimEnd(_)
TrimEnd(s) ==
  IF s # <<>> /\ s[Len(s)] \in Whitespace
  THEN TrimEnd(SubSeq(s, 1, Len(s) - 1))
  ELSE s

\* String.prototype.trim
Trim(s) == TrimEnd(TrimStart(s))

Digits == <<"0", "1", "2", "3", "4", "5", "6", "7", "8", "9">>

\* Number.prototype.toString on a non-negative integer.
RECURSIVE ToString(_)
ToString(n) ==
  IF n < 10 THEN <<Digits[n + 1]>>
  ELSE ToString(n \div 10) \o <<Digits[(n % 10) + 1]>>

DigitValue(c) == CHOOSE d \in 0..9 : Digits[d + 1] = c

\* The number the database engine compares an integer column with when the
\* parameter is a string of decimal digits.
RECURSIVE ToNumber(_)
ToNumber(s) ==
  IF Len(s) = 1 THEN DigitValue(s[1])
  ELSE 10 * ToNumber(SubSeq(s, 1, Len(s) - 1)) + DigitValue(s[Len(s)])

(***************************************************************************)
(* Request inputs.                                                         *)
(***************************************************************************)
Spaces == <<" ", " ", " ">>
Drill == <<"D", "r", "i", "l", "l">>
Saw == <<"S", "a", "w">>

\* inventory_name of POST /register: absent, "", "   ", "Drill"
RegisterNames == {Undefined, Str(<<>>), Str(Spaces), Str(Drill)}
\* inventory_name of PUT /inventory/:id: absent, "", "Saw"
UpdateNames == {Undefined, Str(<<>>), Str(Saw)}
\* description: absent, "", "x"
Descriptions == {Undefined, Str(<<>>), Str(<<"x">>)}

\* req.params.id (and the id field of POST /search): decimal strings, the ids
\* the deployment can assign and one it never assigns.
FPathIds == {ToString(n) : n \in ClockStart..(MaxClock + 1)}
RPathIds == {ToString(n) : n \in 1..(MaxInserts + 1)}

\* req.body.id of PUT /inventory/:id: absent, or an id no record has.
BodyIds == {Undefined, Str(<<"7">>)}

\* The bodies that carry an id field are those that carry a name.
BodyIdsWith(name) == IF Truthy(name) THEN BodyIds ELSE {Undefined}

NoRequest == [id |-> <<>>, inventory_name |-> Undefined,
              description |-> Undefined, file |-> FALSE, includePhoto |-> FALSE,
              body_id |-> Undefined]

Request(id, name, description, file, includePhoto) ==
  [id |-> id, inventory_name |-> name, description |-> description,
   file |-> file, includePhoto |-> includePhoto, body_id |-> Undefined]

\* res.status(s).json(...) / res.json(...): kind tells an item, a list, a
\* message, an error or a binary stream; items holds the item(s) of the body.
Body(status, kind, items) == [status |-> status, kind |-> kind, items |-> items]

\* One exchange: the handler that answered, the request it answered and its
\* response.
Response(op, req, body) ==
  [op |-> op, req |-> req, status |-> body.status, kind |-> body.kind,
   items |-> body.items]

\* No exchange is in progress.
NoResponse == Response("none", NoRequest, Body(0, "none", <<>>))

Idle == last = NoResponse

Item(id, name, description, photo) ==
  [id |-> id, inventory_name |-> name, description |-> description,
   photo |-> photo]

(***************************************************************************)
(* Photo store: multer({dest}) with upload.single("photo").  The middleware *)
(* runs before the handler: when the request carries a file, it writes the *)
(* blob under a generated filename and sets req.file.                      *)
(***************************************************************************)
CanUpload(file) == file => nextFilename <= MaxUploads

\* req.file ? req.file.filename : null
Filename(file) == IF file THEN Str(ToString(nextFilename)) ELSE Null

\* The store keeps only the blob just uploaded.
uploadOverPrevious(file) ==
  /\ photos' = IF file THEN {ToString(nextFilename)} ELSE photos
  /\ nextFilename' = IF file THEN nextFilename + 1 ELSE nextFilename

upload(file) ==
  /\ photos' = IF file THEN photos \cup {ToString(nextFilename)} ELSE photos
  /\ nextFilename' = IF file THEN nextFilename + 1 ELSE nextFilename

\* The test is skipped: every key is taken to have its blob.
existsAlways(key) == TRUE

\* fs.existsSync(path.join(<photos directory>, key))
existsSync(key) == key \in photos

(***************************************************************************)
(* File-backed deployment.                                                 *)
(***************************************************************************)
\* JSON.parse(fs.readFileSync(DB_FILE)).
loadDB == dbFile

\* fs.writeFileSync(DB_FILE, JSON.stringify(data)).  JSON.stringify drops the
\* keys whose value is undefined and JSON.parse reads a dropped key back as
\* undefined, which is the same model value.
saveDB(data) == dbFile' = data

\* db.findIndex(x => x.id === id); 0 stands for -1.
findIndex(db, id) ==
  IF \E i \in 1..Len(db) : db[i].id = id
  THEN CHOOSE i \in 1..Len(db) :
         /\ db[i].id = id
         /\ \A j \in 1..(i - 1) : db[j].id # id
  ELSE 0

\* The item goes to the front of the array (unshift) instead of the end.
unshift(db, item) == <<item>> \o db

\* db.push(item)
push(db, item) == Append(db, item)

\* db.splice(idx, 1)
splice(db, idx) == SubSeq(db, 1, idx - 1) \o SubSeq(db, idx + 1, Len(db))

FileUnchanged == UNCHANGED <<variant, dbFile, inventory, clock, autoIncrement, issued>>

\* app.post("/register")
FRegister(name, description, file) ==
  /\ variant = "file"
  /\ Idle
  /\ UNCHANGED calls
  /\ CanUpload(file)
  /\ upload(file)
  /\ LET req == Request(<<>>, name, description, file, FALSE) IN
     IF ~Truthy(name) \/ Trim(name.v) = <<>>
     THEN /\ last' = Response("register", req, Body(400, "error", <<>>))
          /\ FileUnchanged
     ELSE /\ Len(dbFile) < MaxItems
          /\ LET db == loadDB
                 newItem == Item(ToString(clock), name, Or(description, Str(<<>>)),
                                 Filename(file))
             IN /\ saveDB(push(db, newItem))
                /\ last' = Response("register", req, Body(201, "item", <<newItem>>))
                /\ issued' = issued \cup {newItem.id}
          /\ UNCHANGED <<variant, inventory, clock, autoIncrement>>

\* res.json(db) of app.get("/inventory")
FListResponse(db) == Body(200, "list", db)

\* app.get("/inventory")
FList ==
  /\ variant = "file"
  /\ Idle
  /\ UNCHANGED calls
  /\ last' = Response("list", NoRequest, FListResponse(loadDB))
  /\ UNCHANGED <<photos, nextFilename>>
  /\ FileUnchanged

\* db.find(x => x.id === req.params.id) and the response of
\* app.get("/inventory/:id")
FGetResponse(db, id) ==
  LET idx == findIndex(db, id) IN
  IF idx = 0 THEN Body(404, "error", <<>>) ELSE Body(200, "item", <<db[idx]>>)

\* app.get("/inventory/:id")
FGet(id) ==
  /\ variant = "file"
  /\ Idle
  /\ UNCHANGED calls
  /\ LET req == Request(id, Undefined, Undefined, FALSE, FALSE)
     IN last' = Response("get", req, FGetResponse(loadDB, id))
  /\ UNCHANGED <<photos, nextFilename>>
  /\ FileUnchanged

\* Both fields are assigned without the `!== undefined` tests.
assignBothFields(db, idx, name, description) ==
  [db EXCEPT ![idx].inventory_name = name, ![idx].description = description]

\* if (inventory_name !== undefined) db[idx].inventory_name = inventory_name;
\* if (description !== undefined) db[idx].description = description;
assignFields(db, idx, name, description) ==
  LET named == IF name # Undefined
               THEN [db EXCEPT ![idx].inventory_name = name]
               ELSE db
  IN IF description # Undefined
     THEN [named EXCEPT ![idx].description = description]
     ELSE named

\* app.put("/inventory/:id")
FPut(id, name, description) ==
  /\ variant = "file"
  /\ Idle
  /\ UNCHANGED calls
  /\ UNCHANGED <<photos, nextFilename>>
  /\ \E bodyId \in BodyIdsWith(name) :
     LET db == loadDB
         idx == findIndex(db, id)
         req == [Request(id, name, description, FALSE, FALSE)
                   EXCEPT !.body_id = bodyId]
     IN IF idx = 0
        THEN /\ last' = Response("put", req, Body(404, "error", <<>>))
             /\ FileUnchanged
        ELSE IF ~Truthy(name) /\ ~Truthy(description)
        THEN /\ last' = Response("put", req, Body(400, "error", <<>>))
             /\ FileUnchanged
        ELSE LET updated == assignFields(db, idx, name, description)
             IN /\ saveDB(updated)
                /\ last' = Response("put", req, Body(200, "item", <<updated[idx]>>))
                /\ UNCHANGED <<variant, inventory, clock, autoIncrement, issued>>

\* app.get("/inventory/:id/photo")
FGetPhoto(id) ==
  /\ variant = "file"
  /\ Idle
  /\ UNCHANGED calls
  /\ LET db == loadDB
         idx == findIndex(db, id)
         req == Request(id, Undefined, Undefined, FALSE, FALSE)
     IN last' = IF idx = 0 \/ ~Truthy(db[idx].photo)
                THEN Response("getPhoto", req, Body(404, "error", <<>>))
                ELSE IF ~existsSync(db[idx].photo.v)
                THEN Response("getPhoto", req, Body(404, "error", <<>>))
                ELSE Response("getPhoto", req, Body(200, "stream", <<>>))
  /\ UNCHANGED <<photos, nextFilename>>
  /\ FileUnchanged

\* app.put("/inventory/:id/photo")
FPutPhoto(id, file) ==
  /\ variant = "file"
  /\ Idle
  /\ UNCHANGED calls
  /\ CanUpload(file)
  /\ upload(file)
  /\ LET db == loadDB
         idx == findIndex(db, id)
         req == Request(id, Undefined, Undefined, file, FALSE)
     IN IF idx = 0
        THEN /\ last' = Response("putPhoto", req, Body(404, "error", <<>>))
             /\ FileUnchanged
        ELSE IF ~file
        THEN /\ last' = Response("putPhoto", req, Body(400, "error", <<>>))
             /\ FileUnchanged
        ELSE /\ saveDB([db EXCEPT ![idx].photo = Filename(file)])
             /\ last' = Response("putPhoto", req, Body(200, "message", <<>>))
             /\ UNCHANGED <<variant, inventory, clock, autoIncrement, issued>>

\* `\nPhoto: /inventory/${id}/photo`
PhotoNote(id) == <<"\n", "Photo: /inventory/">> \o id \o <<"/photo">>

\* item.description += `\nPhoto: ...` on the idx-th object of the parsed array
annotate(db, idx, id) ==
  [db EXCEPT ![idx].description = Str(@.v \o PhotoNote(id))]

\* The handler ends with saveDB(db): the parsed array, annotation included,
\* is written back.
savedAfterSearch(file, db) == db

\* DB_FILE when the handler returns: it has no saveDB, so the array it parsed
\* and changed is dropped and the file is what it was.
fileAfterSearch(file, db) == file

\* app.post("/search"): item is an object of the array loadDB just parsed.
FSearch(id, includePhoto) ==
  /\ variant = "file"
  /\ Idle
  /\ UNCHANGED calls
  /\ LET db == loadDB
         idx == findIndex(db, id)
         req == Request(id, Undefined, Undefined, FALSE, includePhoto)
     IN IF idx = 0
        THEN /\ last' = Response("search", req, Body(404, "error", <<>>))
             /\ dbFile' = dbFile
        ELSE LET parsed == IF includePhoto THEN annotate(db, idx, id) ELSE db
             IN /\ last' = Response("search", req, Body(200, "item", <<parsed[idx]>>))
                /\ dbFile' = fileAfterSearch(dbFile, parsed)
  /\ UNCHANGED <<photos, nextFilename>>
  /\ UNCHANGED <<variant, inventory, clock, autoIncrement, issued>>

\* app.delete("/inventory/:id"): String(x.id) === String(id) on ids that
\* are strings already.
FDelete(id) ==
  /\ variant = "file"
  /\ Idle
  /\ UNCHANGED calls
  /\ UNCHANGED <<photos, nextFilename>>
  /\ LET db == loadDB
         idx == findIndex(db, id)
         req == Request(id, Undefined, Undefined, FALSE, FALSE)
     IN IF idx = 0
        THEN /\ last' = Response("delete", req, Body(404, "error", <<>>))
             /\ FileUnchanged
        ELSE /\ saveDB(splice(db, idx))
             /\ last' = Response("delete", req, Body(200, "message", <<>>))
             /\ UNCHANGED <<variant, inventory, clock, autoIncrement, issued>>

(***************************************************************************)
(* Row-backed deployment.  The table is inventory(id, inventory_name,      *)
(* description, photo) with an auto-increment integer id; a SELECT returns  *)
(* the rows in id order.  Each handler below runs alone, from its first     *)
(* db.query to its response.                                               *)
(***************************************************************************)
\* SELECT * FROM inventory WHERE id = ?  (the parameter is req.params.id, a
\* string, which the engine compares as a number)
selectById(table, id) == SelectSeq(table, LAMBDA row : row.id = ToNumber(id))

RowUnchanged == UNCHANGED <<variant, dbFile, inventory, clock, autoIncrement, issued>>

\* INSERT INTO inventory (inventory_name, description, photo) VALUES (?,?,?)
insert(table, insertId, name, description, photo) ==
  Append(table, Item(insertId, name, description, photo))

\* app.post("/register")
RRegister(name, description, file) ==
  /\ variant = "row"
  /\ Idle
  /\ UNCHANGED calls
  /\ CanUpload(file)
  /\ upload(file)
  /\ LET req == Request(<<>>, name, description, file, FALSE) IN
     IF ~Truthy(name)
     THEN /\ last' = Response("register", req, Body(400, "error", <<>>))
          /\ RowUnchanged
     ELSE /\ Len(inventory) < MaxItems
          /\ autoIncrement <= MaxInserts
          /\ LET insertId == autoIncrement
                 inserted == Item(insertId, name, description, Filename(file))
             IN /\ inventory' = insert(inventory, insertId, name,
                                       Or(description, Str(<<>>)), Filename(file))
                /\ autoIncrement' = autoIncrement + 1
                /\ last' = Response("register", req, Body(201, "item", <<inserted>>))
                /\ issued' = issued \cup {insertId}
          /\ UNCHANGED <<variant, dbFile, clock>>

\* SELECT * FROM inventory and res.json(rows)
RListResponse(table) == Body(200, "list", table)

\* app.get("/inventory")
RList ==
  /\ variant = "row"
  /\ Idle
  /\ UNCHANGED calls
  /\ last' = Response("list", NoRequest, RListResponse(inventory))
  /\ UNCHANGED <<photos, nextFilename>>
  /\ RowUnchanged

\* the response of app.get("/inventory/:id")
RGetResponse(table, id) ==
  LET rows == selectById(table, id) IN
  IF Len(rows) = 0 THEN Body(404, "error", <<>>) ELSE Body(200, "item", <<rows[1]>>)

\* app.get("/inventory/:id")
RGet(id) ==
  /\ variant = "row"
  /\ Idle
  /\ UNCHANGED calls
  /\ LET req == Request(id, Undefined, Undefined, FALSE, FALSE)
     IN last' = Response("get", req, RGetResponse(inventory, id))
  /\ UNCHANGED <<photos, nextFilename>>
  /\ RowUnchanged

\* The UPDATE also renumbers the row.
updateByIdRenumbering(table, id, name, description) ==
  [i \in 1..Len(table) |->
     IF table[i].id = ToNumber(id)
     THEN [table[i] EXCEPT !.id = 0, !.inventory_name = name,
                           !.description = description]
     ELSE table[i]]

\* UPDATE inventory SET inventory_name = ?, description = ? WHERE id = ?
updateById(table, id, name, description) ==
  [i \in 1..Len(table) |->
     IF table[i].id = ToNumber(id)
     THEN [table[i] EXCEPT !.inventory_name = name, !.description = description]
     ELSE table[i]]

\* app.put("/inventory/:id")
RPut(id, name, description) ==
  /\ variant = "row"
  /\ Idle
  /\ UNCHANGED calls
  /\ UNCHANGED <<photos, nextFilename>>
  /\ \E bodyId \in BodyIdsWith(name) :
     LET rows == selectById(inventory, id)
         req == [Request(id, name, description, FALSE, FALSE)
                   EXCEPT !.body_id = bodyId]
     IN IF Len(rows) = 0
        THEN /\ last' = Response("put", req, Body(404, "error", <<>>))
             /\ RowUnchanged
        ELSE /\ inventory' = updateById(inventory, id,
                                        Or(name, rows[1].inventory_name),
                                        Or(description, rows[1].description))
             /\ last' = Response("put", req, Body(200, "message", <<>>))
             /\ UNCHANGED <<variant, dbFile, clock, autoIncrement, issued>>

\* app.get("/inventory/:id/photo")
RGetPhoto(id) ==
  /\ variant = "row"
  /\ Idle
  /\ UNCHANGED calls
  /\ LET rows == selectById(inventory, id)
         req == Request(id, Undefined, Undefined, FALSE, FALSE)
     IN last' = IF Len(rows) = 0 \/ ~Truthy(rows[1].photo)
                THEN Response("getPhoto", req, Body(404, "error", <<>>))
                ELSE IF ~existsSync(rows[1].photo.v)
                THEN Response("getPhoto", req, Body(404, "error", <<>>))
                ELSE Response("getPhoto", req, Body(200, "stream", <<>>))
  /\ UNCHANGED <<photos, nextFilename>>
  /\ RowUnchanged

\* The UPDATE without its WHERE clause: every row gets the photo.
updatePhotoOfEveryRow(table, id, photo) ==
  [i \in 1..Len(table) |-> [table[i] EXCEPT !.photo = photo]]

\* UPDATE inventory SET photo = ? WHERE id = ?
updatePhotoById(table, id, photo) ==
  [i \in 1..Len(table) |->
     IF table[i].id = ToNumber(id)
     THEN [table[i] EXCEPT !.photo = photo]
     ELSE table[i]]

\* app.put("/inventory/:id/photo")
RPutPhoto(id, file) ==
  /\ variant = "row"
  /\ Idle
  /\ UNCHANGED calls
  /\ CanUpload(file)
  /\ upload(file)
  /\ LET rows == selectById(inventory, id)
         req == Request(id, Undefined, Undefined, file, FALSE)
     IN IF ~file
        THEN /\ last' = Response("putPhoto", req, Body(400, "error", <<>>))
             /\ RowUnchanged
        ELSE IF Len(rows) = 0
        THEN /\ last' = Response("putPhoto", req, Body(404, "error", <<>>))
             /\ RowUnchanged
        ELSE /\ inventory' = updatePhotoById(inventory, id, Filename(file))
             /\ last' = Response("putPhoto", req, Body(200, "message", <<>>))
             /\ UNCHANGED <<variant, dbFile, clock, autoIncrement, issued>>

\* DELETE FROM inventory WHERE id = ?
deleteById(table, id) == SelectSeq(table, LAMBDA row : row.id # ToNumber(id))

\* app.delete("/inventory/:id")
RDelete(id) ==
  /\ variant = "row"
  /\ Idle
  /\ UNCHANGED calls
  /\ UNCHANGED <<photos, nextFilename>>
  /\ LET rows == selectById(inventory, id)
         req == Request(id, Undefined, Undefined, FALSE, FALSE)
     IN IF Len(rows) = 0
        THEN /\ last' = Response("delete", req, Body(404, "error", <<>>))
             /\ RowUnchanged
        ELSE /\ inventory' = deleteById(inventory, id)
             /\ last' = Response("delete", req, Body(200, "message", <<>>))
             /\ UNCHANGED <<variant, dbFile, clock, autoIncrement, issued>>

\* Date.now() advances between requests.
Tick ==
  /\ variant = "file"
  /\ clock < MaxClock
  /\ clock' = clock + 1
  /\ UNCHANGED <<variant, dbFile, inventory, autoIncrement, photos,
                 nextFilename, last, issued, calls>>

\* The response reaches the client and the exchange ends.
Receive ==
  /\ ~Idle
  /\ last' = NoResponse
  /\ UNCHANGED <<variant, dbFile, inventory, clock, autoIncrement, photos,
                 nextFilename, issued, calls>>

Init ==
  /\ variant \in {"file", "row"}
  /\ dbFile = <<>>
  /\ inventory = <<>>
  /\ clock = ClockStart
  /\ autoIncrement = 1
  /\ photos = {}
  /\ nextFilename = 1
  /\ last = NoResponse
  /\ issued = {}
  /\ calls = <<>>

Next ==
  \/ Tick
  \/ Receive
  \/ \E name \in RegisterNames, description \in Descriptions, file \in BOOLEAN :
       FRegister(name, description, file)
  \/ FList
  \/ \E id \in FPathIds : FGet(id)
  \/ \E id \in FPathIds, name \in UpdateNames, description \in Descriptions :
       FPut(id, name, description)
  \/ \E id \in FPathIds : FGetPhoto(id)
  \/ \E id \in FPathIds, file \in BOOLEAN : FPutPhoto(id, file)
  \/ \E id \in FPathIds, includePhoto \in BOOLEAN : FSearch(id, includePhoto)
  \/ \E id \in FPathIds : FDelete(id)
  \/ \E name \in RegisterNames, description \in Descriptions, file \in BOOLEAN :
       RRegister(name, description, file)
  \/ RList
  \/ \E id \in RPathIds : RGet(id)
  \/ \E id \in RPathIds, name \in UpdateNames, description \in Descriptions :
       RPut(id, name, description)
  \/ \E id \in RPathIds : RGetPhoto(id)
  \/ \E id \in RPathIds, file \in BOOLEAN : RPutPhoto(id, file)
  \/ \E id \in RPathIds : RDelete(id)

Spec == Init /\ [][Next]_vars

(***************************************************************************)
(* The photo routes on a store left by an earlier run.  DB_FILE and the     *)
(* photos directory are created only when missing (lines 21-26, 45-46,      *)
(* 448-449) and the table outlives the process, so a server starts on the   *)
(* records and blobs an earlier run left; the photos directory is an        *)
(* ordinary directory, from which blobs can have been removed since.        *)
(***************************************************************************)
\* Filenames multer generated in the earlier run.
OldKeys == {<<"a">>, <<"b">>}

\* The photo field of a record: null or the key of its upload.
OldPhotos == {Null} \cup {Str(k) : k \in OldKeys}

\* The i-th record of the earlier run.
OldItem(v, i, photo) ==
  Item(IF v = "file" THEN ToString(ClockStart + i - 1) ELSE i,
       Str(Drill), Str(<<>>), photo)

\* The collections the earlier run can have left: every upload has a key of
\* its own.
OldCollections(v) ==
  UNION {{[i \in 1..n |-> OldItem(v, i, p[i])] :
            p \in {q \in [1..n -> OldPhotos] :
                     \A i, j \in 1..n : i # j /\ q[i] # Null => q[i] # q[j]}} :
         n \in 0..MaxItems}

Restart ==
  /\ variant \in {"file", "row"}
  /\ dbFile \in (IF variant = "file" THEN OldCollections("file") ELSE {<<>>})
  /\ inventory \in (IF variant = "row" THEN OldCollections("row") ELSE {<<>>})
  /\ clock = ClockStart + Len(dbFile)
  /\ autoIncrement = Len(inventory) + 1
  /\ photos \in SUBSET OldKeys
  /\ nextFilename = 1
  /\ last = NoResponse
  /\ issued = {}
  /\ calls = <<>>

PhotoNext ==
  \/ Receive
  \/ \E id \in FPathIds : FGetPhoto(id)
  \/ \E id \in FPathIds, file \in BOOLEAN : FPutPhoto(id, file)
  \/ \E id \in FPathIds : FDelete(id)
  \/ \E id \in RPathIds : RGetPhoto(id)
  \/ \E id \in RPathIds, file \in BOOLEAN : RPutPhoto(id, file)
  \/ \E id \in RPathIds : RDelete(id)

PhotoSpec == Restart /\ [][PhotoNext]_vars

(***************************************************************************)
(* Requests in flight.  MaxCalls mutating requests have arrived within one  *)
(* millisecond at a server whose store holds one record; the upload         *)
(* middleware has stored their files and their handlers are about to run.   *)
(* A step is one turn of the event loop for one request.  The file-backed   *)
(* handlers are synchronous: from loadDB to res.json they are one callback, *)
(* shown here as a Load turn and a Save turn between which the callback is  *)
(* still on the stack.  The row-backed handlers are async: they give up the *)
(* thread at every `await db.query`, and each statement is atomic in the    *)
(* engine.  A storage operation either succeeds or fails (ok).             *)
(***************************************************************************)
Calls == 1..MaxCalls

\* The path id of the record in the store.
StoredId(v) == IF v = "file" THEN ToString(ClockStart - 1) ELSE ToString(1)

\* The store when the requests arrive: one record, registered earlier.
StoredCollection(v) ==
  <<Item(IF v = "file" THEN ToString(ClockStart - 1) ELSE 1,
         Str(Drill), Str(<<>>), Null)>>

\* A request whose handler has not started: req.params.id, req.body and
\* req.file.filename (key); read is the handler's local db / rows.
Call(op, id, name, description, key) ==
  [op |-> op, id |-> id, inventory_name |-> name, description |-> description,
   key |-> key, pc |-> "received", read |-> <<>>, failed |-> FALSE, status |-> 0]

\* The requests that can be in flight; c is the arrival number, which names
\* the file multer stored for a photo request.
ServeRequests(v, c) ==
  {Call("register", <<>>, Str(Drill), Undefined, Null),
   Call("putPhoto", StoredId(v), Undefined, Undefined, Str(ToString(c))),
   Call("delete", StoredId(v), Undefined, Undefined, Null)}
  \cup {Call("put", StoredId(v), name, description, Null) :
          name \in {Undefined, Str(Saw)},
          description \in {Undefined, Str(<<"x">>)}}

\* res.status(status).json(...)
respond(c, status) ==
  calls' = [calls EXCEPT ![c].pc = "responded", ![c].status = status]

\* A storage operation threw in a synchronous handler or inside try/catch:
\* the error handler (of Express, or the catch block) answers 500.
fail(c) ==
  calls' = [calls EXCEPT ![c].pc = "responded", ![c].status = 500,
                         ![c].failed = TRUE]

\* An awaited db.query rejected in an async handler without try/catch: the
\* promise the handler returned is rejected.  Express 5 forwards the
\* rejection to its error handler, which answers 500; Express 4 ignores the
\* promise and the request is never answered.  The source does not say which
\* is installed.
reject(c, forwarded) ==
  IF forwarded
  THEN fail(c)
  ELSE calls' = [calls EXCEPT ![c].pc = "abandoned", ![c].failed = TRUE]

\* Any handler may start, whatever is on the stack.
startAnytime == TRUE

\* The event loop starts a callback only when no other is on the stack.
CanStart == \A d \in Calls : calls[d].pc # "loaded"

\* The file-backed handler of the request, from the array db that loadDB
\* returned to the array it hands to saveDB and the status it answers; an
\* early return hands nothing to saveDB.
handle(db, call) ==
  LET idx == findIndex(db, call.id) IN
  CASE call.op = "register" ->
         IF ~Truthy(call.inventory_name) \/ Trim(call.inventory_name.v) = <<>>
         THEN [db |-> db, status |-> 400]
         ELSE [db |-> push(db, Item(ToString(clock), call.inventory_name,
                                    Or(call.description, Str(<<>>)), call.key)),
               status |-> 201]
    [] call.op = "put" ->
         IF idx = 0 THEN [db |-> db, status |-> 404]
         ELSE IF ~Truthy(call.inventory_name) /\ ~Truthy(call.description)
         THEN [db |-> db, status |-> 400]
         ELSE [db |-> assignFields(db, idx, call.inventory_name, call.description),
               status |-> 200]
    [] call.op = "putPhoto" ->
         IF idx = 0 THEN [db |-> db, status |-> 404]
         ELSE IF call.key = Null THEN [db |-> db, status |-> 400]
         ELSE [db |-> [db EXCEPT ![idx].photo = call.key], status |-> 200]
    [] call.op = "delete" ->
         IF idx = 0 THEN [db |-> db, status |-> 404]
         ELSE [db |-> splice(db, idx), status |-> 200]

ServeUnchanged ==
  UNCHANGED <<variant, clock, photos, nextFilename, last, issued>>

\* A file-backed handler starts and runs up to the return of loadDB.
Load(c, ok) ==
  /\ variant = "file"
  /\ calls[c].pc = "received"
  /\ CanStart
  /\ IF calls[c].op = "register" /\ handle(<<>>, calls[c]).status = 400
     THEN respond(c, 400)
     ELSE IF ~ok
     THEN fail(c)
     ELSE calls' = [calls EXCEPT ![c].pc = "loaded", ![c].read = loadDB]
  /\ UNCHANGED <<dbFile, inventory, autoIncrement>>
  /\ ServeUnchanged

\* The rest of the file-backed handler: the change of the loaded array,
\* saveDB and the response.
Save(c, ok) ==
  /\ variant = "file"
  /\ calls[c].pc = "loaded"
  /\ LET h == handle(calls[c].read, calls[c]) IN
     IF h.status >= 400
     THEN respond(c, h.status) /\ UNCHANGED dbFile
     ELSE IF ~ok
     THEN fail(c) /\ UNCHANGED dbFile
     ELSE saveDB(h.db) /\ respond(c, h.status)
  /\ UNCHANGED <<inventory, autoIncrement>>
  /\ ServeUnchanged

\* Row-backed POST /register: the INSERT inside try/catch.
Insert(c, ok) ==
  /\ variant = "row"
  /\ calls[c].pc = "received"
  /\ calls[c].op = "register"
  /\ IF ~Truthy(calls[c].inventory_name)
     THEN respond(c, 400) /\ UNCHANGED <<inventory, autoIncrement>>
     ELSE IF ~ok
     THEN fail(c) /\ UNCHANGED <<inventory, autoIncrement>>
     ELSE /\ inventory' = insert(inventory, autoIncrement, calls[c].inventory_name,
                                  Or(calls[c].description, Str(<<>>)), calls[c].key)
          /\ autoIncrement' = autoIncrement + 1
          /\ respond(c, 201)
  /\ UNCHANGED dbFile
  /\ ServeUnchanged

\* Row-backed PUT, PUT photo and DELETE up to the result of their SELECT.
Select(c, ok, forwarded) ==
  /\ variant = "row"
  /\ calls[c].pc = "received"
  /\ calls[c].op \in {"put", "putPhoto", "delete"}
  /\ IF calls[c].op = "putPhoto" /\ calls[c].key = Null
     THEN respond(c, 400)
     ELSE IF ~ok
     THEN reject(c, forwarded)
     ELSE LET rows == selectById(inventory, calls[c].id) IN
          IF Len(rows) = 0
          THEN respond(c, 404)
          ELSE calls' = [calls EXCEPT ![c].pc = "selected", ![c].read = rows]
  /\ UNCHANGED <<dbFile, inventory, autoIncrement>>
  /\ ServeUnchanged

\* The second statement of the row-backed handler, with the rows its SELECT
\* returned, and the response.
Write(c, ok, forwarded) ==
  /\ variant = "row"
  /\ calls[c].pc = "selected"
  /\ IF ~ok
     THEN reject(c, forwarded) /\ UNCHANGED inventory
     ELSE /\ inventory' =
               CASE calls[c].op = "put" ->
                      updateById(inventory, calls[c].id,
                                 Or(calls[c].inventory_name,
                                    calls[c].read[1].inventory_name),
                                 Or(calls[c].description,
                                    calls[c].read[1].description))
                 [] calls[c].op = "putPhoto" ->
                      updatePhotoById(inventory, calls[c].id, calls[c].key)
                 [] calls[c].op = "delete" ->
                      deleteById(inventory, calls[c].id)
          /\ respond(c, 200)
  /\ UNCHANGED <<dbFile, autoIncrement>>
  /\ ServeUnchanged

ServeInit ==
  /\ variant \in {"file", "row"}
  /\ dbFile = IF variant = "file" THEN StoredCollection("file") ELSE <<>>
  /\ inventory = IF variant = "row" THEN StoredCollection("row") ELSE <<>>
  /\ clock = ClockStart
  /\ autoIncrement = IF variant = "row" THEN 2 ELSE 1
  /\ calls \in {f \in [Calls -> UNION {ServeRequests(variant, c) : c \in Calls}] :
                  \A c \in Calls : f[c] \in ServeRequests(variant, c)}
  /\ photos = {calls[c].key.v : c \in {d \in Calls : calls[d].key # Null}}
  /\ nextFilename = MaxCalls + 1
  /\ last = NoResponse
  /\ issued = {}

\* Every turn the event loop can give to request c.
Turn(c) ==
  \E ok \in BOOLEAN, forwarded \in BOOLEAN :
    \/ Load(c, ok)
    \/ Save(c, ok)
    \/ Insert(c, ok)
    \/ Select(c, ok, forwarded)
    \/ Write(c, ok, forwarded)

ServeNext ==
  \/ \E c \in Calls, ok \in BOOLEAN : Load(c, ok)
  \/ \E c \in Calls, ok \in BOOLEAN : Save(c, ok)
  \/ \E c \in Calls, ok \in BOOLEAN : Insert(c, ok)
  \/ \E c \in Calls, ok \in BOOLEAN, forwarded \in BOOLEAN :
       Select(c, ok, forwarded)
  \/ \E c \in Calls, ok \in BOOLEAN, forwarded \in BOOLEAN :
       Write(c, ok, forwarded)

Serve == ServeInit /\ [][ServeNext]_vars

\* The event loop runs every callback that is ready and every db.query
\* settles, so a request whose next turn stays possible gets it.
FairServe == Serve /\ \A c \in Calls : WF_vars(Turn(c))

(***************************************************************************)
(* Vocabulary of the properties.                                           *)
(***************************************************************************)
\* The persisted record collection of the deployment.
Records == IF variant = "file" THEN dbFile ELSE inventory

PathIds == IF variant = "file" THEN FPathIds ELSE RPathIds

\* What GET /inventory/:id answers on a collection.
GetResponse(records, id) ==
  IF variant = "file" THEN FGetResponse(records, id) ELSE RGetResponse(records, id)

\* What GET /inventory answers on a collection.
ListResponse(records) ==
  IF variant = "file" THEN FListResponse(records) ELSE RListResponse(records)

\* The record carries the id a path parameter names.
HasId(record, id) ==
  IF variant = "file" THEN record.id = id ELSE record.id = ToNumber(id)

\* The path parameter that names an assigned id.
PathOf(id) == IF variant = "file" THEN id ELSE ToString(id)

\* records without its i-th element
Without(records, i) == SubSeq(records, 1, i - 1) \o SubSeq(records, i + 1, Len(records))

\* The step is the handling of a request by handler op.
Handled(op) == Idle /\ last'.op = op

\* The step is a request to op answered with status.
Answered(op, status) == Handled(op) /\ last'.status = status

\* ---- C1 ----
\* C1: every successful POST /register returns an id that no earlier
\* successful register returned, in both deployments, whatever requests came
\* in between and whether or not the clock advanced.
RegisterReturnsFreshId ==
  [][Answered("register", 201) => last'.items[1].id \notin issued]_vars

\* ---- C2 ----
BlankNames == {Undefined, Str(<<>>), Str(Spaces)}

\* C2: POST /register whose inventory_name is absent, "" or only whitespace
\* is answered 400 and leaves the record collection unchanged, in both
\* deployments.
BlankNameRejected ==
  [][Handled("register") /\ last'.req.inventory_name \in BlankNames
       => last'.status = 400 /\ Records' = Records]_vars

\* ---- C3 ----
\* C3: after a successful DELETE /inventory/:id, GET and a second DELETE on
\* that id answer 404 (DELETE answers 404 exactly when GET does), the delete
\* removed one record and left the others as they were, and the id stays
\* not-found until a register.
DeletedIsNotFound ==
  [][/\ Answered("delete", 200) =>
          /\ GetResponse(Records', last'.req.id).status = 404
          /\ \E i \in 1..Len(Records) :
               /\ HasId(Records[i], last'.req.id)
               /\ Records' = Without(Records, i)
     /\ \A id \in PathIds :
          GetResponse(Records, id).status = 404 /\ ~Handled("register")
            => GetResponse(Records', id).status = 404]_vars

\* ---- C4 ----
\* C4: right after a successful POST /register, GET /inventory/:id with the
\* returned id answers 200 with an item equal, field by field, to the one
\* the register returned; GET on an id never assigned answers 404.
GetReturnsRegisteredItem ==
  [][/\ Answered("register", 201) =>
          LET got == GetResponse(Records', PathOf(last'.items[1].id)) IN
          /\ got.status = 200
          /\ got.items = last'.items
     /\ \A id \in PathIds :
          (\A assigned \in issued : PathOf(assigned) # id)
            => GetResponse(Records, id).status = 404]_vars
\* ---- C5 ----
\* C5: a successful PUT /inventory/:id that supplies only description leaves
\* everything but that record's description as it was (and a non-empty
\* description supplied becomes the stored one); symmetrically for a PUT that
\* supplies only inventory_name.
PutOverwritesOnlySuppliedFields ==
  [][Answered("put", 200) =>
       LET req == last'.req IN
       \E i \in 1..Len(Records) :
         /\ HasId(Records[i], req.id)
         /\ req.inventory_name = Undefined /\ req.description # Undefined =>
              /\ Records' = [Records EXCEPT ![i].description = Records'[i].description]
              /\ Truthy(req.description) => Records'[i].description = req.description
         /\ req.inventory_name # Undefined /\ req.description = Undefined =>
              /\ Records' = [Records EXCEPT ![i].inventory_name = Records'[i].inventory_name]
              /\ Truthy(req.inventory_name) => Records'[i].inventory_name = req.inventory_name]_vars

\* A PUT that supplied only a description succeeded while a second record
\* was stored.
DescriptionOnlyPutSucceeded ==
  /\ last.op = "put"
  /\ last.status = 200
  /\ last.req.inventory_name = Undefined
  /\ last.req.description = Str(<<"x">>)
  /\ Len(Records) >= 2
  /\ GetResponse(Records, last.req.id).items[1].description = Str(<<"x">>)

\* ---- C6 ----
\* C6: PUT /inventory/:id on an existing id with neither inventory_name nor
\* description is answered 400 and leaves the collection unchanged, in both
\* deployments.
EmptyPutRejected ==
  [][/\ Handled("put")
     /\ GetResponse(Records, last'.req.id).status = 200
     /\ last'.req.inventory_name = Undefined
     /\ last'.req.description = Undefined
     => last'.status = 400 /\ Records' = Records]_vars

\* ---- C7 ----
\* C7: every stored record has a non-empty inventory_name.
StoredNamesNonEmpty ==
  \A i \in 1..Len(Records) : Truthy(Records[i].inventory_name)

\* ---- C8 ----
\* C8: PUT /inventory/:id on an existing id with description "" and no
\* inventory_name succeeds and stores "" as the description, whereas a
\* successful PUT without description leaves the description as it was.
EmptyDescriptionIsAnUpdate ==
  [][Handled("put") /\ GetResponse(Records, last'.req.id).status = 200 =>
       LET req == last'.req
           old == GetResponse(Records, req.id).items[1]
           new == GetResponse(Records', req.id).items[1]
       IN /\ req.inventory_name = Undefined /\ req.description = Str(<<>>) =>
               last'.status = 200 /\ new.description = Str(<<>>)
          /\ req.description = Undefined /\ last'.status = 200 =>
               new.description = old.description]_vars

\* ---- C9 ----
\* The record a successful register stores: the id and photo key it
\* returned, the name it was given and the description it was given or "".
Registered ==
  Item(last'.items[1].id, last'.req.inventory_name,
       Or(last'.req.description, Str(<<>>)), last'.items[1].photo)

\* C9: GET /inventory answers 200 with the registered and not yet deleted
\* records in registration order: it is empty at the start, a successful
\* register appends its record, a successful delete removes one record with
\* the id it names and keeps the order of the others, and a rejected register
\* or delete changes nothing.
ListIsRegisteredMinusDeleted ==
  [][LET before == ListResponse(Records)
         after == ListResponse(Records')
     IN /\ before.status = 200
        /\ Records = <<>> => before.items = <<>>
        /\ Answered("register", 201) => after.items = Append(before.items, Registered)
        /\ Answered("delete", 200) =>
             \E i \in 1..Len(before.items) :
               /\ HasId(before.items[i], last'.req.id)
               /\ after.items = Without(before.items, i)
        /\ (Handled("register") \/ Handled("delete")) /\ last'.status >= 400 =>
             after.items = before.items]_vars

\* Two records were registered and the first was deleted: the list holds
\* the second.
ListedAfterDelete ==
  /\ variant = "row"
  /\ last.op = "delete"
  /\ last.status = 200
  /\ last.req.id = ToString(1)
  /\ Len(ListResponse(Records).items) = 1
  /\ ListResponse(Records).items[1].id = 2

\* ---- C10 ----
\* C10: after a successful PUT /inventory/:id/photo that stored the upload
\* under key k, GET /inventory/:id returns the record with photo k and its
\* other fields unchanged, blob k is in the photo store, and every other
\* record is unchanged.
PhotoUpdateSetsKey ==
  [][Answered("putPhoto", 200) =>
       \E k \in photos' \ photos :
         LET id == last'.req.id
             old == GetResponse(Records, id)
             new == GetResponse(Records', id)
         IN /\ old.status = 200
            /\ new.status = 200
            /\ new.items[1] = [old.items[1] EXCEPT !.photo = Str(k)]
            /\ \E i \in 1..Len(Records) :
                 /\ HasId(Records[i], id)
                 /\ Records' = [Records EXCEPT ![i].photo = Str(k)]]_vars

\* A photo was set on one of two stored records, the other keeping its own.
PhotoReplaced ==
  /\ last.op = "putPhoto"
  /\ last.status = 200
  /\ Len(Records) = 2
  /\ GetResponse(Records, last.req.id).items[1].photo = Str(ToString(nextFilename - 1))
  /\ \E i \in 1..2 : Records[i].photo # Str(ToString(nextFilename - 1))

\* ---- C11 ----
\* C11: a request answered 400 or 404 leaves the record collection and the
\* photo store as they were before the request, also when the request
\* carried a photo file.
FailureLeavesStateUnchanged ==
  [][Idle /\ last'.status \in {400, 404}
       => Records' = Records /\ photos' = photos]_vars

\* ---- C13 ----
\* C13: GET /inventory/:id/photo answers 200 exactly when a record with the
\* id exists, its photo field is not null and the blob it names is in the
\* photo store; otherwise (no record, no photo, blob missing) it answers 404;
\* and it changes neither the record collection nor the photo store.
PhotoServedWhenStored ==
  [][Handled("getPhoto") =>
       LET got == GetResponse(Records, last'.req.id)
           stored == /\ got.status = 200
                     /\ got.items[1].photo # Null
                     /\ got.items[1].photo.v \in photos
       IN /\ last'.status = IF stored THEN 200 ELSE 404
          /\ Records' = Records
          /\ photos' = photos]_vars

\* GET photo answered 404 for a record whose photo field names a blob that
\* is not in the store.
BlobMissingAnswered404 ==
  /\ last.op = "getPhoto"
  /\ last.status = 404
  /\ GetResponse(Records, last.req.id).status = 200
  /\ GetResponse(Records, last.req.id).items[1].photo # Null
  /\ GetResponse(Records, last.req.id).items[1].photo.v \notin photos

\* ---- C14 ----
\* C14: no step removes a blob from the photo store: a successful DELETE
\* removes the record and keeps the blob its photo field named, and a
\* successful PUT /inventory/:id/photo replaces the photo field and keeps the
\* blob the field named before.
BlobsNeverRemoved ==
  [][/\ photos \subseteq photos'
     /\ Answered("delete", 200) =>
          LET old == GetResponse(Records, last'.req.id).items[1] IN
          /\ Len(Records') = Len(Records) - 1
          /\ old.photo # Null /\ old.photo.v \in photos => old.photo.v \in photos'
     /\ Answered("putPhoto", 200) =>
          LET old == GetResponse(Records, last'.req.id).items[1]
              new == GetResponse(Records', last'.req.id).items[1]
          IN /\ new.photo # old.photo
             /\ old.photo # Null /\ old.photo.v \in photos => old.photo.v \in photos']_vars

\* The only record got a new photo key, and the store holds the new blob
\* next to a blob of the earlier run.
PhotoOverwrittenBlobKept ==
  /\ last.op = "putPhoto"
  /\ last.status = 200
  /\ Len(Records) = 1
  /\ Records[1].photo = Str(ToString(1))
  /\ photos = {<<"a">>, ToString(1)}

\* ---- C15 ----
\* C15: the id of a stored record never changes: PUT /inventory/:id (also
\* with an id field in its body), PUT /inventory/:id/photo and POST /search
\* leave the ids of all records as they were, and every step other than a
\* successful DELETE leaves each stored record its id.
IdsNeverChange ==
  [][/\ Handled("put") \/ Handled("putPhoto") \/ Handled("search") =>
          /\ Len(Records') = Len(Records)
          /\ \A i \in 1..Len(Records) : Records'[i].id = Records[i].id
     /\ ~Answered("delete", 200) =>
          /\ Len(Records') >= Len(Records)
          /\ \A i \in 1..Len(Records) : Records'[i].id = Records[i].id]_vars

\* A PUT whose body carried an id field succeeded, and the record is still
\* found under the id of the path.
PutWithBodyIdSucceeded ==
  /\ last.op = "put"
  /\ last.status = 200
  /\ last.req.body_id = Str(<<"7">>)
  /\ Truthy(last.req.inventory_name)
  /\ GetResponse(Records, last.req.id).status = 200
  /\ GetResponse(Records, last.req.id).items[1].inventory_name = last.req.inventory_name

\* ---- C19 ----
\* C19: POST /search of the file-backed server changes nothing that is
\* stored: it answers 404 for an id no record has and otherwise 200 with the
\* record GET /inventory/:id returns, the photo path appended to the
\* description of the response when includePhoto is set, while GET
\* /inventory/:id and GET /inventory answer after it what they answered
\* before it.
SearchIsReadOnly ==
  [][Handled("search") =>
       LET req == last'.req
           got == GetResponse(Records, req.id)
       IN /\ last'.status = got.status
          /\ got.status = 200 =>
               last'.items[1] =
                 IF req.includePhoto
                 THEN [got.items[1] EXCEPT !.description =
                         Str(got.items[1].description.v \o PhotoNote(req.id))]
                 ELSE got.items[1]
          /\ \A id \in PathIds : GetResponse(Records', id) = GetResponse(Records, id)
          /\ ListResponse(Records') = ListResponse(Records)
          /\ photos' = photos]_vars

\* /search answered with the annotated description and the stored record
\* has the description without the annotation.
SearchAnnotatedResponseOnly ==
  /\ last.op = "search"
  /\ last.status = 200
  /\ last.req.includePhoto
  /\ LET stored == GetResponse(Records, last.req.id).items[1] IN
     /\ stored.description = Str(<<"x">>)
     /\ last.items[1].description = Str(<<"x">> \o PhotoNote(last.req.id))

\* ---- C12 ----
\* C12: every request is eventually answered, and a request one of whose
\* storage operations failed is answered 500.
EveryRequestAnswered ==
  \A c \in Calls :
    <>(/\ calls[c].pc = "responded"
       /\ calls[c].failed => calls[c].status = 500)

\* ---- C16 ----
\* The requests answered after a storage failure changed nothing; the others,
\* handled one after the other in the given order starting from db, answer
\* the statuses they answered and leave the snapshot that is in DB_FILE.
RECURSIVE SerialRun(_, _, _)
SerialRun(db, order, k) ==
  IF k > MaxCalls
  THEN db = dbFile
  ELSE LET call == calls[order[k]] IN
       IF call.failed
       THEN SerialRun(db, order, k + 1)
       ELSE LET h == handle(db, call) IN
            /\ h.status = call.status
            /\ SerialRun(h.db, order, k + 1)

Orders == {order \in [Calls -> Calls] : \A c, d \in Calls : c # d => order[c] # order[d]}

\* C16: in the file-backed server no request loads or saves the snapshot
\* between the loadDB and the saveDB of another (while a handler holds a
\* loaded array, DB_FILE is what it loaded and no other handler holds one),
\* and once all requests are answered the snapshot and the statuses are
\* those of handling the requests one at a time in some order.
SnapshotIsSerial ==
  variant = "file" /\ DOMAIN calls = Calls =>
    /\ \A c \in Calls : calls[c].pc = "loaded" =>
         /\ dbFile = calls[c].read
         /\ \A d \in Calls \ {c} : calls[d].pc # "loaded"
    /\ (\A c \in Calls : calls[c].pc = "responded") =>
         \E order \in Orders : SerialRun(StoredCollection("file"), order, 1)

\* Two PUTs, one with only a name and one with only a description, were both
\* answered 200 by the file-backed server and the record holds both values.
BothPutsKept ==
  /\ variant = "file"
  /\ DOMAIN calls = Calls
  /\ \E c, d \in Calls :
       /\ calls[c].op = "put" /\ calls[c].status = 200
       /\ calls[c].inventory_name = Str(Saw) /\ calls[c].description = Undefined
       /\ calls[d].op = "put" /\ calls[d].status = 200
       /\ calls[d].inventory_name = Undefined /\ calls[d].description = Str(<<"x">>)
  /\ dbFile = <<[StoredCollection("file")[1] EXCEPT !.inventory_name = Str(Saw),
                                                  !.description = Str(<<"x">>)]>>

\* ---- C17 ----
\* C17: in the row-backed server, when a PUT with only inventory_name and a
\* PUT with only description on the same record have both been answered 200
\* (and no other request changes or removes the record), the record holds
\* both new values.
ConcurrentPutsBothKept ==
  variant = "row" /\ DOMAIN calls = Calls =>
    \A c, d \in Calls :
      /\ calls[c].op = "put" /\ calls[c].status = 200
      /\ calls[c].inventory_name # Undefined /\ calls[c].description = Undefined
      /\ calls[d].op = "put" /\ calls[d].status = 200
      /\ calls[d].inventory_name = Undefined /\ calls[d].description # Undefined
      /\ calls[c].id = calls[d].id
      /\ \A e \in Calls \ {c, d} : calls[e].op \in {"register", "putPhoto"}
      => LET rows == selectById(inventory, calls[c].id) IN
         /\ Len(rows) = 1
         /\ rows[1].inventory_name = calls[c].inventory_name
         /\ rows[1].description = calls[d].description

\* ---- C18 ----
\* C18: of the DELETE requests for one id, at most one is answered 200.
OneDeleteSucceeds ==
  DOMAIN calls = Calls =>
    \A c, d \in Calls :
      /\ c # d
      /\ calls[c].op = "delete" /\ calls[d].op = "delete"
      /\ calls[c].id = calls[d].id
      => ~(calls[c].status = 200 /\ calls[d].status = 200)
====
